---------------------------- MODULE Spec2Model ----------------------------
(***************************************************************************)
(* State-machine model of src/collective/aggregator.h (xgboost):           *)
(*   detail::TryApplyWithLabels, the two ApplyWithLabels overloads,        *)
(*   GlobalMax, GlobalSum, GlobalRatio and BroadcastGradient,              *)
(* executed by NumWorkers workers that all make the same call.  A worker   *)
(* is identified with its rank; rank 0 is the leader.  Broadcast and       *)
(* Allreduce are a rendezvous: a worker's k-th collective call completes   *)
(* only when every worker has issued its k-th collective call.             *)
(***************************************************************************)
EXTENDS Integers, Sequences, FiniteSets, TLC

\* ------------------------------------------------------------- bounds
NumWorkers == 2
MaxLen == 1
MaxMsgLen == 1

Ranks == 0 .. (NumWorkers - 1)
Chars == {"a", "b"}
Dividends == {-1, 2}
Divisors == {-1, 0, 1}
\* A worker's numeric input: <<value, _>> for GlobalMax, the vector for GlobalSum,
\* <<dividend, divisor>> for GlobalRatio.
Inputs == {<<a, b>> : a \in Dividends, b \in Divisors}
Modes == {"RowSplit", "VerticalFederated", "VerticalPlain"}

VARIABLES
  cfg,    \* the call every worker makes: operation, partition mode, build, inputs
  pc,     \* pc[w]: the worker's position in the code
  after,  \* after[w]: where the worker continues once its pending collective returns
  rc,     \* rc[w]: the value of the Result chain so far
  loc,    \* loc[w]: the worker's buffers and locals, named as in the source
  calls,  \* calls[w]: the collective calls the worker has issued, in order
  obs     \* obs[w]: history of what the worker did (fn evaluations, reports, returns)

vars == <<cfg, pc, after, rc, loc, calls, obs>>

\* ------------------------------------------------------------- data
RECURSIVE SeqsUpTo(_, _)
SeqsUpTo(S, n) ==
  IF n = 0 THEN {<<>>}
  ELSE LET shorter == SeqsUpTo(S, n - 1)
       IN  shorter \cup {Append(s, c) : s \in {t \in shorter : Len(t) = n - 1}, c \in S}

\* The texts e.what() of a dmlc::Error can carry, the empty text included.
ErrMsgs == SeqsUpTo(Chars, MaxMsgLen)

\* What one evaluation of fn / grad_fn does: completes, or throws dmlc::Error(msg).
FnOutcomes ==
  {[ok |-> TRUE, msg |-> <<>>]} \cup {[ok |-> FALSE, msg |-> m] : m \in ErrMsgs}

ZeroPair == <<0, 0>>
Zeros(n) == [i \in 1 .. n |-> ZeroPair]

\* The result fn computes on the worker of rank r from the labels it sees.
Computed(r) == [i \in 1 .. cfg.outLen |-> <<r + 1, i>>]
\* What the worker's result buffer holds before the call.
Prior(r) == [i \in 1 .. cfg.initLen |-> <<0 - (r + 1), i>>]

\* HostDeviceVector::Resize / std::string::resize: keep the prefix, pad with `fill`.
Resize(s, n, fill) == [i \in 1 .. n |-> IF i <= Len(s) THEN s[i] ELSE fill]

\* reinterpret_cast<float const*>(values.data()), values.size() * 2
AsFloats(s) == [j \in 1 .. 2 * Len(s) |-> s[(j + 1) \div 2][IF j % 2 = 1 THEN 1 ELSE 2]]

\* The encryption plugin: an opaque injective map into values no plaintext takes.
EncryptGradient(data) == [j \in 1 .. Len(data) |-> 100 + data[j]]

IsRowSplit == cfg.mode = "RowSplit"
IsVerticalFederated == cfg.mode = "VerticalFederated"
IsEncrypted == cfg.encrypted

\* ------------------------------------------------------------- collectives
Success == "Success"
Failure == "Failure"

Call(kind, rop, root, buf, data) ==
  [kind |-> kind, op |-> rop, root |-> root, buf |-> buf, len |-> Len(data), data |-> data]

\* The worker issues a collective call on buffer `buf` and blocks in it.
Issue(w, kind, rop, root, buf, data, next) ==
  /\ calls' = [calls EXCEPT ![w] = Append(@, Call(kind, rop, root, buf, data))]
  /\ pc' = [pc EXCEPT ![w] = "wait"]
  /\ after' = [after EXCEPT ![w] = next]

\* Broadcast copies the root's buffer into the receiver's identically-shaped view.
BroadcastInto(own, sent) ==
  [i \in 1 .. Len(own) |-> IF i <= Len(sent) THEN sent[i] ELSE own[i]]

Combine(rop, a, b) == IF rop = "kMax" THEN (IF a >= b THEN a ELSE b) ELSE a + b

RECURSIVE ReduceUpTo(_, _, _, _)
\* Element i of the k-th call's buffers combined over ranks 0 .. r.
ReduceUpTo(r, k, i, rop) ==
  IF r = 0 THEN calls[0][k].data[i]
  ELSE Combine(rop, ReduceUpTo(r - 1, k, i, rop), calls[r][k].data[i])

\* Allreduce replaces the buffer in place with the combined result everywhere.
AllreduceInto(k, c) == [i \in 1 .. c.len |-> ReduceUpTo(NumWorkers - 1, k, i, c.op)]

Terminated == {"returned", "fatal", "threw"}

\* The rendezvous completes for worker w: every worker has issued its k-th call.
CollectiveComplete(w) ==
  /\ pc[w] = "wait"
  /\ LET k == Len(calls[w])
         c == calls[w][k]
     IN  /\ \A v \in Ranks : Len(calls[v]) >= k
         /\ \E good \in (IF cfg.reliable THEN {TRUE} ELSE BOOLEAN) :
              /\ rc' = [rc EXCEPT ![w] = IF good THEN Success ELSE Failure]
              /\ loc' = [loc EXCEPT ![w][c.buf] =
                           IF ~good THEN @
                           ELSE IF c.kind = "Allreduce" THEN AllreduceInto(k, c)
                           ELSE IF w = c.root THEN @
                           ELSE BroadcastInto(@, calls[c.root][k].data)]
  /\ pc' = [pc EXCEPT ![w] = after[w]]
  /\ UNCHANGED <<cfg, after, calls, obs>>

\* ------------------------------------------------------------- fn
\* One evaluation of fn on worker w with outcome `out`: the result it leaves.
FnResult(w, out) == IF out.ok THEN Computed(w) ELSE loc[w].result
FnLogged(w, out) == [obs EXCEPT ![w].fnLog = Append(@, out)]

\* LOG(FATAL): the worker terminates with a report.
Fatal(w, kind, msg) ==
  /\ pc' = [pc EXCEPT ![w] = "fatal"]
  /\ obs' = [obs EXCEPT ![w].fatal = kind, ![w].fatalMsg = msg]


\* ------------------------------------------------------------- TryApplyWithLabels
\* Where control goes when detail::TryApplyWithLabels returns to its caller.
TryReturnsTo ==
  CASE cfg.op = "TryApplyWithLabels" -> "returned"
    [] cfg.op = "ApplyWithLabelsRaw" -> "raw_bcast"
    [] OTHER -> "hdv_size"

TryEvaluatesEverywhere(w) == TRUE
\* Line 30: only the worker with collective::GetRank() == 0 evaluates fn.
TryEvaluates(w) == w = 0

\* Lines 29-38: the leader evaluates fn inside try/catch; msg_size is msg.size().
TryFn(w) ==
  /\ pc[w] = "try_fn"
  /\ IF TryEvaluates(w)
     THEN \E out \in FnOutcomes :
            /\ loc' = [loc EXCEPT ![w].result = FnResult(w, out),
                                  ![w].msg = out.msg,
                                  ![w].msg_size = <<Len(out.msg)>>]
            /\ obs' = FnLogged(w, out)
     ELSE /\ loc' = [loc EXCEPT ![w].msg = <<>>, ![w].msg_size = <<0>>]
          /\ obs' = obs
  /\ rc' = [rc EXCEPT ![w] = Success]
  /\ pc' = [pc EXCEPT ![w] = "try_bcast_size"]
  /\ UNCHANGED <<cfg, after, calls>>

\* Lines 39-40: Broadcast(&msg_size, 1) from rank 0.
TryBroadcastSize(w) ==
  /\ pc[w] = "try_bcast_size"
  /\ Issue(w, "Broadcast", "none", 0, "msg_size", loc[w].msg_size, "try_bcast_msg")
  /\ UNCHANGED <<cfg, rc, loc, obs>>

\* Line 42: the message is broadcast only when its announced length is positive.
TryHasMessage(w) == loc[w].msg_size[1] > 0

\* Lines 41-46: msg.resize(msg_size); Broadcast(msg) from rank 0.
TryBroadcastMsg(w) ==
  /\ pc[w] = "try_bcast_msg"
  /\ IF rc[w] = Success /\ TryHasMessage(w)
     THEN LET resized == Resize(loc[w].msg, loc[w].msg_size[1], "nul")
          IN  /\ loc' = [loc EXCEPT ![w].msg = resized]
              /\ Issue(w, "Broadcast", "none", 0, "msg", resized, "try_fatal")
     ELSE /\ pc' = [pc EXCEPT ![w] = "try_fatal"]
          /\ UNCHANGED <<loc, calls, after>>
  /\ UNCHANGED <<cfg, rc, obs>>

TryReportsLeaderOnly(w) == w = 0 /\ loc[w].msg_size[1] > 0
\* Line 48: which workers report the fatal error.
TryReports(w) == loc[w].msg_size[1] > 0

\* Lines 47-53: LOG(FATAL) << msg when msg_size > 0, else return rc.
TryFatal(w) ==
  /\ pc[w] = "try_fatal"
  /\ IF rc[w] = Success /\ TryReports(w)
     THEN Fatal(w, "fn", loc[w].msg)
     ELSE /\ pc' = [pc EXCEPT ![w] = TryReturnsTo]
          /\ obs' = [obs EXCEPT ![w].tryRet = rc[w]]
  /\ UNCHANGED <<cfg, after, rc, loc, calls>>

\* ------------------------------------------------------------- ApplyWithLabels
\* SafeColl(rc): a Failure is escalated to a fatal error.
SafeColl(w, next) ==
  /\ IF rc[w] = Failure
     THEN Fatal(w, "coll", <<>>)
     ELSE /\ pc' = [pc EXCEPT ![w] = next]
          /\ obs' = obs
  /\ UNCHANGED <<cfg, after, rc, loc, calls>>

\* Lines 82 / 116 / 206: fn evaluated outside any try/catch; an error propagates.
DirectFn(w, next) ==
  \E out \in FnOutcomes :
    /\ loc' = [loc EXCEPT ![w].result = FnResult(w, out)]
    /\ obs' = FnLogged(w, out)
    /\ pc' = [pc EXCEPT ![w] = IF out.ok THEN next ELSE "threw"]
    /\ UNCHANGED <<cfg, after, rc, calls>>

ApplyDelegatesWhenVertical == ~IsRowSplit
\* Lines 73 / 102: the leader computes for all only under info.IsVerticalFederated().
ApplyDelegates == IsVerticalFederated

\* Lines 73, 81-83 (raw buffer) and 102, 115-117 (HostDeviceVector): the dispatch
\* on info.IsVerticalFederated().
ApplyWithLabels(w) ==
  /\ pc[w] = "apply"
  /\ IF ApplyDelegates
     THEN /\ pc' = [pc EXCEPT ![w] = "try_fn"]
          /\ UNCHANGED <<cfg, after, rc, loc, calls, obs>>
     ELSE DirectFn(w, "returned")

\* Lines 74-79: the chained Broadcast of the fixed-size buffer from rank 0.
ApplyRawBroadcast(w) ==
  /\ pc[w] = "raw_bcast"
  /\ IF rc[w] = Success
     THEN Issue(w, "Broadcast", "none", 0, "result", loc[w].result, "safecoll")
     ELSE /\ pc' = [pc EXCEPT ![w] = "safecoll"]
          /\ UNCHANGED <<calls, after>>
  /\ UNCHANGED <<cfg, rc, loc, obs>>

\* Lines 107-109: size{result->Size()}, then the chained Broadcast(&size, 1).
ApplyHdvSize(w) ==
  /\ pc[w] = "hdv_size"
  /\ loc' = [loc EXCEPT ![w].size = <<Len(loc[w].result)>>]
  /\ IF rc[w] = Success
     THEN Issue(w, "Broadcast", "none", 0, "size", <<Len(loc[w].result)>>, "hdv_data")
     ELSE /\ pc' = [pc EXCEPT ![w] = "hdv_data"]
          /\ UNCHANGED <<calls, after>>
  /\ UNCHANGED <<cfg, rc, obs>>

HdvKeepsLength(w) == loc[w].result
\* Line 111: result->Resize(size).
HdvResized(w) == Resize(loc[w].result, loc[w].size[1], ZeroPair)

\* Lines 110-113: Resize, then Broadcast(result->HostPointer(), size) from rank 0.
ApplyHdvData(w) ==
  /\ pc[w] = "hdv_data"
  /\ IF rc[w] = Success
     THEN /\ loc' = [loc EXCEPT ![w].result = HdvResized(w)]
          /\ Issue(w, "Broadcast", "none", 0, "result", HdvResized(w), "safecoll")
     ELSE /\ pc' = [pc EXCEPT ![w] = "safecoll"]
          /\ UNCHANGED <<loc, calls, after>>
  /\ UNCHANGED <<cfg, rc, obs>>

ApplySafeCollDropped(w) ==
  /\ pc[w] = "safecoll"
  /\ pc' = [pc EXCEPT ![w] = "returned"]
  /\ UNCHANGED <<cfg, after, rc, loc, calls, obs>>

\* Lines 80 / 114: SafeColl(rc), then ApplyWithLabels returns.
ApplySafeColl(w) ==
  /\ pc[w] = "safecoll"
  /\ SafeColl(w, "returned")

\* ------------------------------------------------------------- reductions
GlobalMaxOpSum == "kSum"
\* Line 136: the reduction GlobalMax asks for.
GlobalMaxOp == "kMax"

GlobalMaxAlwaysReduces == TRUE
\* Line 135: GlobalMax reduces only under row split.
GlobalMaxReduces == IsRowSplit

\* Lines 134-136, 139: value is the by-value parameter; Allreduce(&value, 1, kMax)
\* under row split, else value is returned as it is.
GlobalMax(w) ==
  /\ pc[w] = "gmax"
  /\ LET value == <<cfg.input[w][1]>>
     IN  /\ loc' = [loc EXCEPT ![w].values = value]
         /\ IF GlobalMaxReduces
            THEN /\ Issue(w, "Allreduce", GlobalMaxOp, -1, "values", value, "gmax_ret")
                 /\ obs' = obs
            ELSE /\ pc' = [pc EXCEPT ![w] = "returned"]
                 /\ obs' = [obs EXCEPT ![w].ret = value]
                 /\ UNCHANGED <<calls, after>>
  /\ UNCHANGED <<cfg, rc>>

\* Lines 137, 139: SafeColl(rc); return value.
GlobalMaxReturn(w) ==
  /\ pc[w] = "gmax_ret"
  /\ IF rc[w] = Failure
     THEN Fatal(w, "coll", <<>>)
     ELSE /\ pc' = [pc EXCEPT ![w] = "returned"]
          /\ obs' = [obs EXCEPT ![w].ret = loc[w].values]
  /\ UNCHANGED <<cfg, after, rc, loc, calls>>

GlobalSumAlwaysReduces == TRUE
\* Line 156: GlobalSum reduces only under row split.
GlobalSumReduces == IsRowSplit

\* Lines 156-159: return Allreduce(values, kSum) under row split, else Success().
GlobalSum(w) ==
  /\ pc[w] = "gsum"
  /\ IF GlobalSumReduces
     THEN /\ Issue(w, "Allreduce", "kSum", -1, "values", loc[w].values, "gsum_ret")
          /\ rc' = rc
     ELSE /\ pc' = [pc EXCEPT ![w] = "gsum_ret"]
          /\ rc' = [rc EXCEPT ![w] = Success]
          /\ UNCHANGED <<calls, after>>
  /\ UNCHANGED <<cfg, loc, obs>>

\* GlobalSum hands its Result to its caller: the driver, or GlobalRatio (line 177).
GlobalSumReturn(w) ==
  /\ pc[w] = "gsum_ret"
  /\ IF cfg.op = "GlobalRatio"
     THEN /\ pc' = [pc EXCEPT ![w] = "gratio_ret"]
          /\ obs' = obs
     ELSE /\ pc' = [pc EXCEPT ![w] = "returned"]
          /\ obs' = [obs EXCEPT ![w].sumRet = rc[w], ![w].ret = loc[w].values]
  /\ UNCHANGED <<cfg, after, rc, loc, calls>>

\* Lines 176-177: results{dividend, divisor}; GlobalSum over the pair.
GlobalRatio(w) ==
  /\ pc[w] = "gratio"
  /\ loc' = [loc EXCEPT ![w].values = <<cfg.input[w][1], cfg.input[w][2]>>]
  /\ pc' = [pc EXCEPT ![w] = "gsum"]
  /\ UNCHANGED <<cfg, after, rc, calls, obs>>

\* std::numeric_limits<T>::quiet_NaN(), written as the quotient 0/0.
NaN == <<0, 0>>
\* dividend / divisor, kept as the exact quotient.
Quotient(dividend, divisor) == <<dividend, divisor>>

RatioOfStrict(dividend, divisor) ==
  IF divisor < 0 THEN NaN ELSE Quotient(dividend, divisor)
\* Lines 180-184.
RatioOf(dividend, divisor) ==
  IF divisor <= 0 THEN NaN ELSE Quotient(dividend, divisor)

GlobalRatioReturnUnchecked(w) ==
  /\ pc[w] = "gratio_ret"
  /\ pc' = [pc EXCEPT ![w] = "returned"]
  /\ obs' = [obs EXCEPT ![w].ret = RatioOf(loc[w].values[1], loc[w].values[2])]
  /\ UNCHANGED <<cfg, after, rc, loc, calls>>

\* Lines 178-184: SafeColl(rc); unpack results; the guarded division.
GlobalRatioReturn(w) ==
  /\ pc[w] = "gratio_ret"
  /\ IF rc[w] = Failure
     THEN Fatal(w, "coll", <<>>)
     ELSE /\ pc' = [pc EXCEPT ![w] = "returned"]
          /\ obs' = [obs EXCEPT ![w].ret = RatioOf(loc[w].values[1], loc[w].values[2])]
  /\ UNCHANGED <<cfg, after, rc, loc, calls>>

\* ------------------------------------------------------------- BroadcastGradient
NoFederatedFallsBack(w) ==
  /\ pc' = [pc EXCEPT ![w] = "apply"]
  /\ obs' = obs
\* Line 238: LOG(FATAL) << error::NoFederated() in a build without the plugin.
NoFederated(w) == Fatal(w, "NoFederated", <<>>)

\* Lines 198-199, 237-242: the choice of branch.
BroadcastGradient(w) ==
  /\ pc[w] = "bg"
  /\ IF IsVerticalFederated /\ IsEncrypted
     THEN IF cfg.federatedBuild
          THEN /\ pc' = [pc EXCEPT ![w] = "bg_grad"]
               /\ obs' = obs
          ELSE NoFederated(w)
     ELSE /\ pc' = [pc EXCEPT ![w] = "apply"]
          /\ obs' = obs
  /\ UNCHANGED <<cfg, after, rc, loc, calls>>

BgGradEveryWorker(w) ==
  /\ pc[w] = "bg_grad"
  /\ DirectFn(w, IF w = 0 THEN "bg_encrypt" ELSE "bg_nbytes")

\* Lines 204-206: the leader obtains the gradient; grad_fn is not guarded here.
BgGrad(w) ==
  /\ pc[w] = "bg_grad"
  /\ IF w = 0
     THEN DirectFn(w, "bg_encrypt")
     ELSE /\ pc' = [pc EXCEPT ![w] = "bg_nbytes"]
          /\ UNCHANGED <<cfg, after, rc, loc, calls, obs>>

\* Lines 207-213: the leader encrypts the gradient values.
BgEncrypt(w) ==
  /\ pc[w] = "bg_encrypt"
  /\ loc' = [loc EXCEPT ![w].encrypted = EncryptGradient(AsFloats(loc[w].result))]
  /\ obs' = [obs EXCEPT ![w].encrypts = @ + 1]
  /\ pc' = [pc EXCEPT ![w] = "bg_nbytes"]
  /\ UNCHANGED <<cfg, after, rc, calls>>

\* Lines 216-219: n_bytes = encrypted.size(); Broadcast(&n_bytes, 1) from rank 0.
BgBroadcastSize(w) ==
  /\ pc[w] = "bg_nbytes"
  /\ loc' = [loc EXCEPT ![w].n_bytes = <<Len(loc[w].encrypted)>>]
  /\ rc' = [rc EXCEPT ![w] = Success]
  /\ Issue(w, "Broadcast", "none", 0, "n_bytes", <<Len(loc[w].encrypted)>>, "bg_payload")
  /\ UNCHANGED <<cfg, obs>>

BgTargetNotAllocated(w) == loc[w].encrypted
\* Lines 221-224: a non-leader receives into grad, resized to n_bytes; the leader
\* sends the span EncryptGradient returned.
BgTarget(w) == IF w # 0 THEN Resize(<<>>, loc[w].n_bytes[1], 0) ELSE loc[w].encrypted

\* Lines 220-226: non-leaders allocate grad and point encrypted at it; Broadcast.
BgBroadcastPayload(w) ==
  /\ pc[w] = "bg_payload"
  /\ IF rc[w] = Success
     THEN /\ loc' = [loc EXCEPT ![w].encrypted = BgTarget(w)]
          /\ Issue(w, "Broadcast", "none", 0, "encrypted", BgTarget(w), "bg_safecoll")
     ELSE /\ pc' = [pc EXCEPT ![w] = "bg_safecoll"]
          /\ UNCHANGED <<loc, calls, after>>
  /\ UNCHANGED <<cfg, rc, obs>>

\* Line 227: SafeColl(rc).
BgSafeColl(w) ==
  /\ pc[w] = "bg_safecoll"
  /\ SafeColl(w, "bg_sync")

\* Line 229: the payload is handed to the plugin.
BgSync(w) ==
  /\ pc[w] = "bg_sync"
  /\ obs' = [obs EXCEPT ![w].syncs = Append(@, loc[w].encrypted)]
  /\ pc' = [pc EXCEPT ![w] = "bg_fill"]
  /\ UNCHANGED <<cfg, after, rc, loc, calls>>

BgFillSkipped(w) ==
  /\ pc[w] = "bg_fill"
  /\ pc' = [pc EXCEPT ![w] = "apply"]
  /\ UNCHANGED <<cfg, after, rc, loc, calls, obs>>

\* Lines 234-236: Fill(GradientPair{0, 0}), then ApplyWithLabels over the buffer.
BgFill(w) ==
  /\ pc[w] = "bg_fill"
  /\ loc' = [loc EXCEPT ![w].result = Zeros(Len(loc[w].result))]
  /\ pc' = [pc EXCEPT ![w] = "apply"]
  /\ UNCHANGED <<cfg, after, rc, calls, obs>>

\* ------------------------------------------------------------- the system
Entry(o) ==
  CASE o = "TryApplyWithLabels" -> "try_fn"
    [] o \in {"ApplyWithLabelsRaw", "ApplyWithLabelsHdv"} -> "apply"
    [] o = "GlobalMax" -> "gmax"
    [] o = "GlobalSum" -> "gsum"
    [] o = "GlobalRatio" -> "gratio"
    [] OTHER -> "bg"

NoInput == [w \in Ranks |-> <<0, 0>>]

\* Every worker makes the same call with the same partition and encryption mode.
Configs ==
  {[op |-> "TryApplyWithLabels", mode |-> "VerticalFederated", encrypted |-> FALSE,
    federatedBuild |-> TRUE, reliable |-> r, outLen |-> n, initLen |-> n,
    input |-> NoInput] : r \in BOOLEAN, n \in 0 .. MaxLen}
  \cup
  {[op |-> "ApplyWithLabelsRaw", mode |-> m, encrypted |-> FALSE,
    federatedBuild |-> TRUE, reliable |-> r, outLen |-> n, initLen |-> n,
    input |-> NoInput] : m \in Modes, r \in BOOLEAN, n \in 0 .. MaxLen}
  \cup
  {[op |-> "ApplyWithLabelsHdv", mode |-> m, encrypted |-> FALSE,
    federatedBuild |-> TRUE, reliable |-> r, outLen |-> n, initLen |-> k,
    input |-> NoInput] : m \in Modes, r \in BOOLEAN, n \in 0 .. MaxLen, k \in 0 .. MaxLen}
  \cup
  {[op |-> o, mode |-> m, encrypted |-> FALSE,
    federatedBuild |-> TRUE, reliable |-> r, outLen |-> 0, initLen |-> 0,
    input |-> i] : o \in {"GlobalMax", "GlobalSum", "GlobalRatio"}, m \in Modes,
                   r \in BOOLEAN, i \in [Ranks -> Inputs]}
  \cup
  {[op |-> "BroadcastGradient", mode |-> m, encrypted |-> e,
    federatedBuild |-> f, reliable |-> r, outLen |-> n, initLen |-> k,
    input |-> NoInput] : m \in Modes, e \in BOOLEAN, f \in BOOLEAN, r \in BOOLEAN,
                         n \in 0 .. MaxLen, k \in 0 .. MaxLen}

\* What a conditional reduction hands back: its value, its Result, the buffer.
Output(w) == [ret |-> obs[w].ret, sumRet |-> obs[w].sumRet, values |-> loc[w].values]
NoOutput == [ret |-> <<>>, sumRet |-> "none", values |-> <<>>]

Init ==
  /\ cfg \in Configs
  /\ pc = [w \in Ranks |-> Entry(cfg.op)]
  /\ after = [w \in Ranks |-> "none"]
  /\ rc = [w \in Ranks |-> Success]
  /\ loc = [w \in Ranks |->
             [msg |-> <<>>, msg_size |-> <<0>>, result |-> Prior(w), size |-> <<0>>,
              n_bytes |-> <<0>>, encrypted |-> <<>>, values |-> cfg.input[w]]]
  /\ calls = [w \in Ranks |-> <<>>]
  /\ obs = [w \in Ranks |->
             [fnLog |-> <<>>, fatal |-> "none", fatalMsg |-> <<>>, tryRet |-> "none",
              sumRet |-> "none", ret |-> <<>>, encrypts |-> 0, syncs |-> <<>>,
              round |-> 1, first |-> NoOutput]]

Next ==
  \E w \in Ranks :
    \/ CollectiveComplete(w)
    \/ TryFn(w)
    \/ TryBroadcastSize(w)
    \/ TryBroadcastMsg(w)
    \/ TryFatal(w)
    \/ ApplyWithLabels(w)
    \/ ApplyRawBroadcast(w)
    \/ ApplyHdvSize(w)
    \/ ApplyHdvData(w)
    \/ ApplySafeColl(w)
    \/ GlobalMax(w)
    \/ GlobalMaxReturn(w)
    \/ GlobalSum(w)
    \/ GlobalSumReturn(w)
    \/ GlobalRatio(w)
    \/ GlobalRatioReturn(w)
    \/ BroadcastGradient(w)
    \/ BgGrad(w)
    \/ BgEncrypt(w)
    \/ BgBroadcastSize(w)
    \/ BgBroadcastPayload(w)
    \/ BgSafeColl(w)
    \/ BgSync(w)
    \/ BgFill(w)

Spec == Init /\ [][Next]_vars

\* ------------------------------------------------------------- repeated reductions
\* The caller issues the same reduction a second time: the same values for the
\* by-value parameters of GlobalMax and GlobalRatio, the same buffer for GlobalSum.
CallAgain(w) ==
  /\ pc[w] = "returned"
  /\ obs[w].round = 1
  /\ obs' = [obs EXCEPT ![w].round = 2, ![w].first = Output(w),
                        ![w].ret = <<>>, ![w].sumRet = "none"]
  /\ pc' = [pc EXCEPT ![w] = Entry(cfg.op)]
  /\ rc' = [rc EXCEPT ![w] = Success]
  /\ UNCHANGED <<cfg, after, loc, calls>>

InitReduce == Init /\ cfg.op \in {"GlobalMax", "GlobalSum", "GlobalRatio"}

NextTwice ==
  \E w \in Ranks :
    \/ CollectiveComplete(w)
    \/ GlobalMax(w)
    \/ GlobalMaxReturn(w)
    \/ GlobalSum(w)
    \/ GlobalSumReturn(w)
    \/ GlobalRatio(w)
    \/ GlobalRatioReturn(w)
    \/ CallAgain(w)

SpecTwice == InitReduce /\ [][NextTwice]_vars

\* ------------------------------------------------------------- properties
Followers == Ranks \ {0}
ApplyOps == {"TryApplyWithLabels", "ApplyWithLabelsRaw", "ApplyWithLabelsHdv"}
ReduceOps == {"GlobalMax", "GlobalSum", "GlobalRatio"}

\* Some evaluation of fn on the leader threw.
LeaderRaised == \E i \in 1 .. Len(obs[0].fnLog) : ~obs[0].fnLog[i].ok
\* The texts of the errors fn threw on the leader.
LeaderErrors == {obs[0].fnLog[i].msg : i \in {j \in 1 .. Len(obs[0].fnLog) : ~obs[0].fnLog[j].ok}}

\* The worker waits in a collective call that a terminated worker never issues.
BlockedForever(w) ==
  /\ pc[w] = "wait"
  /\ \E v \in Ranks : pc[v] \in Terminated /\ Len(calls[v]) < Len(calls[w])

AllZero(s) == \A i \in 1 .. Len(s) : s[i] = ZeroPair

RECURSIVE SumInputs(_, _)
SumInputs(r, i) == IF r = 0 THEN cfg.input[0][i] ELSE SumInputs(r - 1, i) + cfg.input[r][i]

RECURSIVE MaxInputs(_)
MaxInputs(r) ==
  IF r = 0 THEN cfg.input[0][1]
  ELSE IF cfg.input[r][1] >= MaxInputs(r - 1) THEN cfg.input[r][1] ELSE MaxInputs(r - 1)

LastRank == NumWorkers - 1

\* C1: in vertical-federated mode with reliable broadcasts, no worker has come out
\* of TryApplyWithLabels with Success while another worker has terminated with the
\* leader's fn error.
C1_UnanimousOutcome ==
  (cfg.reliable /\ IsVerticalFederated /\ cfg.op \in ApplyOps) =>
    \A w \in Ranks, v \in Ranks : ~(obs[w].tryRet = Success /\ obs[v].fatal = "fn")

C1_Witness ==
  /\ cfg.reliable /\ IsVerticalFederated /\ cfg.op \in ApplyOps
  /\ \A w \in Ranks : pc[w] = "fatal" /\ obs[w].fatal = "fn"

\* C2: whatever text the leader's fn error carries, no worker obtains Success from
\* TryApplyWithLabels and every worker that is through terminates with exactly that
\* text; a worker terminates with an fn error only if fn threw.
C2_ErrorAlwaysReported ==
  (cfg.reliable /\ IsVerticalFederated /\ cfg.op \in ApplyOps) =>
    \A w \in Ranks :
      /\ obs[w].tryRet = Success => ~LeaderRaised
      /\ obs[w].fatal = "fn" => obs[w].fatalMsg \in LeaderErrors

\* C3: in vertical-federated mode, when the leader's fn succeeded, a non-leader that
\* has returned from ApplyWithLabels (either overload) holds exactly the leader's
\* computed result, whatever the length its container started with.
C3_ResultReplicated ==
  (IsVerticalFederated /\ cfg.op \in {"ApplyWithLabelsRaw", "ApplyWithLabelsHdv"}
     /\ ~LeaderRaised) =>
    \A w \in Followers :
      pc[w] = "returned" =>
        /\ loc[w].result = Computed(0)
        /\ pc[0] = "returned" => loc[w].result = loc[0].result

C3_Witness ==
  /\ IsVerticalFederated /\ cfg.op = "ApplyWithLabelsHdv" /\ ~LeaderRaised
  /\ cfg.initLen = 0 /\ cfg.outLen > 0
  /\ \A w \in Ranks : pc[w] = "returned"
  /\ \A w \in Followers : Len(loc[w].result) = cfg.outLen

\* C4: in the federated-encrypted branch of BroadcastGradient a non-leader's
\* gradient buffer only ever holds zeros or its prior contents, never the leader's
\* plaintext gradient.
C4_NoPlaintextOnFollowers ==
  (cfg.op = "BroadcastGradient" /\ IsVerticalFederated /\ IsEncrypted
     /\ cfg.federatedBuild) =>
    \A w \in Followers : loc[w].result = Prior(w) \/ AllZero(loc[w].result)

\* The k-th collective calls of two workers agree in kind, root, reduction and length.
SameCall(a, b) ==
  a.kind = b.kind /\ a.root = b.root /\ a.op = b.op /\ a.len = b.len /\ a.buf = b.buf

\* C5: with reliable collectives, all workers issue the same sequence of collective
\* calls as far as each gets, and no worker is left blocked in a collective call
\* that another worker never issues, whether or not the leader's function raises.
C5_SameCollectiveSequence ==
  cfg.reliable =>
    /\ \A w \in Ranks, v \in Ranks :
         \A k \in 1 .. Len(calls[w]) :
           k <= Len(calls[v]) => SameCall(calls[w][k], calls[v][k])
    /\ \A w \in Ranks : ~BlockedForever(w)

\* C6: in the vertical-federated branches of BroadcastGradient, once the leader's
\* gradient function has raised, no worker returns normally and no worker stays
\* blocked in a Broadcast the leader never issues.
C6_GradErrorUnanimousFatal ==
  (cfg.op = "BroadcastGradient" /\ cfg.reliable /\ IsVerticalFederated
     /\ (IsEncrypted => cfg.federatedBuild) /\ LeaderRaised) =>
    \A w \in Ranks : pc[w] # "returned" /\ ~BlockedForever(w)

\* C7: under row split, a worker that returns (no Allreduce having failed) has the
\* maximum of all workers' values from GlobalMax, the elementwise sum of all
\* workers' vectors from GlobalSum, and sum of dividends / sum of divisors from
\* GlobalRatio when the summed divisor is positive.
C7_RowSplitCombines ==
  (IsRowSplit /\ cfg.op \in ReduceOps) =>
    \A w \in Ranks :
      pc[w] = "returned" =>
        CASE cfg.op = "GlobalMax" -> obs[w].ret = <<MaxInputs(LastRank)>>
          [] cfg.op = "GlobalSum" ->
               obs[w].sumRet = Success =>
                 loc[w].values = <<SumInputs(LastRank, 1), SumInputs(LastRank, 2)>>
          [] OTHER ->
               SumInputs(LastRank, 2) > 0 =>
                 obs[w].ret = Quotient(SumInputs(LastRank, 1), SumInputs(LastRank, 2))

C7_Witness ==
  /\ IsRowSplit /\ cfg.op = "GlobalRatio"
  /\ cfg.input[0] # cfg.input[LastRank]
  /\ SumInputs(LastRank, 2) > 0
  /\ \A w \in Ranks : pc[w] = "returned" /\ obs[w].ret # NaN

\* The ratio a worker computes from its own dividend and divisor alone.
LocalRatio(w) ==
  IF cfg.input[w][2] <= 0 THEN NaN ELSE Quotient(cfg.input[w][1], cfg.input[w][2])

\* C8: when the mode is not row split, GlobalMax, GlobalSum and GlobalRatio issue
\* no collective call; GlobalMax returns the worker's own value, GlobalSum returns
\* Success with the vector unchanged, GlobalRatio the worker's own ratio.
C8_VerticalIsLocal ==
  (~IsRowSplit /\ cfg.op \in ReduceOps) =>
    \A w \in Ranks :
      /\ calls[w] = <<>>
      /\ pc[w] = "returned" =>
           CASE cfg.op = "GlobalMax" -> obs[w].ret = <<cfg.input[w][1]>>
             [] cfg.op = "GlobalSum" ->
                  obs[w].sumRet = Success /\ loc[w].values = cfg.input[w]
             [] OTHER -> obs[w].ret = LocalRatio(w)

C8_Witness ==
  /\ ~IsRowSplit /\ cfg.op = "GlobalSum"
  /\ \A w \in Ranks : pc[w] = "returned" /\ obs[w].sumRet = Success
  /\ cfg.input[0] # cfg.input[LastRank]

\* The divisor and dividend GlobalRatio decides on: summed over all workers under
\* row split, the worker's own otherwise.
CombinedInput(w, i) == IF IsRowSplit THEN SumInputs(LastRank, i) ELSE cfg.input[w][i]

\* C9: GlobalRatio returns NaN exactly when the combined divisor is <= 0 and the
\* combined dividend over the combined divisor otherwise; under row split all
\* workers take the same decision, whatever their own divisors.
C9_NaNIffCombinedDivisorNotPositive ==
  cfg.op = "GlobalRatio" =>
    \A w \in Ranks :
      pc[w] = "returned" =>
        /\ (obs[w].ret = NaN) <=> (CombinedInput(w, 2) <= 0)
        /\ CombinedInput(w, 2) > 0 =>
             obs[w].ret = Quotient(CombinedInput(w, 1), CombinedInput(w, 2))
        /\ IsRowSplit =>
             \A v \in Ranks : pc[v] = "returned" => obs[v].ret = obs[w].ret

C9_Witness ==
  /\ cfg.op = "GlobalRatio" /\ IsRowSplit
  /\ cfg.input[0][2] > 0 /\ SumInputs(LastRank, 2) = 0
  /\ \A w \in Ranks : pc[w] = "returned" /\ obs[w].ret = NaN

\* C10: BroadcastGradient asked for the encrypted federated branch in a build
\* without the plugin: every worker ends in the configuration error, with no
\* collective call issued, grad_fn never evaluated and the gradient buffer as it was.
C10_NoCapabilityFailsFirst ==
  (cfg.op = "BroadcastGradient" /\ IsVerticalFederated /\ IsEncrypted
     /\ ~cfg.federatedBuild) =>
    \A w \in Ranks :
      /\ calls[w] = <<>>
      /\ obs[w].fnLog = <<>>
      /\ loc[w].result = Prior(w)
      /\ pc[w] \in {"bg", "fatal"}
      /\ pc[w] = "fatal" => obs[w].fatal = "NoFederated"

C10_Witness ==
  /\ cfg.op = "BroadcastGradient" /\ IsVerticalFederated /\ IsEncrypted
  /\ ~cfg.federatedBuild
  /\ \A w \in Ranks : pc[w] = "fatal" /\ obs[w].fatal = "NoFederated"

\* The operations that go through ApplyWithLabels / TryApplyWithLabels.
LabelOps == ApplyOps \cup {"BroadcastGradient"}
EncryptedBranch ==
  cfg.op = "BroadcastGradient" /\ IsVerticalFederated /\ IsEncrypted /\ cfg.federatedBuild

\* C11: in vertical-federated mode no worker of rank other than 0 ever evaluates
\* fn / grad_fn, in TryApplyWithLabels, either ApplyWithLabels overload and every
\* branch of BroadcastGradient, nor calls EncryptGradient.
C11_OnlyLeaderEvaluates ==
  (IsVerticalFederated /\ cfg.op \in LabelOps) =>
    \A w \in Followers : obs[w].fnLog = <<>> /\ obs[w].encrypts = 0

C11_Witness ==
  /\ EncryptedBranch
  /\ \A w \in Ranks : pc[w] = "returned"
  /\ Len(obs[0].fnLog) = 2 /\ obs[0].encrypts = 1
  /\ \A w \in Followers : obs[w].fnLog = <<>>

\* C12: when the mode is not vertical-federated, each ApplyWithLabels overload
\* issues no collective call and evaluates fn exactly once on every worker; a
\* worker that returns holds its own computation.
C12_LocalApply ==
  (~IsVerticalFederated /\ cfg.op \in {"ApplyWithLabelsRaw", "ApplyWithLabelsHdv"}) =>
    \A w \in Ranks :
      /\ calls[w] = <<>>
      /\ Len(obs[w].fnLog) = (IF pc[w] = "apply" THEN 0 ELSE 1)
      /\ pc[w] \in {"apply", "returned", "threw"}
      /\ pc[w] = "returned" => loc[w].result = Computed(w)

C12_Witness ==
  /\ cfg.mode = "VerticalPlain" /\ cfg.op = "ApplyWithLabelsHdv" /\ cfg.outLen > 0
  /\ \A w \in Ranks : pc[w] = "returned" /\ loc[w].result = Computed(w)

\* The payload the leader's EncryptGradient call returns for the gradient it computed.
LeaderPayload == EncryptGradient(AsFloats(Computed(0)))

\* C13: in the federated-encrypted branch SyncEncryptedGradient is invoked at most
\* once per worker, exactly once on a worker that returns, only after that worker's
\* length broadcast and payload broadcast have completed, and with the very payload
\* the leader's EncryptGradient call returned.
C13_SyncOncePerWorker ==
  EncryptedBranch =>
    \A w \in Ranks :
      /\ Len(obs[w].syncs) <= 1
      /\ pc[w] = "returned" => Len(obs[w].syncs) = 1
      /\ obs[w].syncs # <<>> =>
           /\ Len(calls[w]) >= 2
           /\ calls[w][1].buf = "n_bytes" /\ calls[w][2].buf = "encrypted"
           /\ \A v \in Ranks : Len(calls[v]) >= 2
           /\ obs[w].syncs[1] = LeaderPayload
           /\ obs[w].syncs[1] = calls[0][2].data

C13_Witness ==
  /\ EncryptedBranch /\ cfg.outLen > 0
  /\ \A w \in Ranks : pc[w] = "returned" /\ obs[w].syncs = <<LeaderPayload>>

\* C14: under row split, when a worker's Allreduce fails, GlobalSum returns that
\* Failure to its caller and never terminates the process, whereas GlobalMax and
\* GlobalRatio end in the fatal error and never return a value.
C14_ReductionFailure ==
  (IsRowSplit /\ cfg.op \in ReduceOps) =>
    \A w \in Ranks :
      IF cfg.op = "GlobalSum"
      THEN /\ pc[w] # "fatal"
           /\ pc[w] = "returned" => obs[w].sumRet = rc[w]
      ELSE /\ pc[w] = "returned" => rc[w] = Success
           /\ rc[w] = Failure => obs[w].ret = <<>>
           /\ pc[w] = "fatal" => rc[w] = Failure /\ obs[w].fatal = "coll"

C14_Witness ==
  /\ IsRowSplit /\ cfg.op = "GlobalSum"
  /\ \E w \in Ranks : pc[w] = "returned" /\ obs[w].sumRet = Failure

SecondReturn(w) == obs[w].round = 2 /\ pc[w] = "returned"

\* C15: for GlobalMax, GlobalSum and GlobalRatio, in every mode, with no collective
\* failing, the second of two successive identical calls (GlobalSum on the same
\* buffer) yields the output of the first.
C15_Idempotent ==
  cfg.reliable => \A w \in Ranks : SecondReturn(w) => Output(w) = obs[w].first

\* C15 as amended: the second call yields the output of the first for GlobalMax and
\* GlobalRatio in every mode and for GlobalSum outside row split; under row split
\* GlobalSum sums the already-summed buffer again, so with reliable collectives the
\* second call leaves NumWorkers times the first call's sums.
C15_IdempotentExceptInPlaceSum ==
  \A w \in Ranks :
    SecondReturn(w) =>
      IF cfg.op = "GlobalSum" /\ IsRowSplit
      THEN cfg.reliable =>
             /\ obs[w].first.values = <<SumInputs(LastRank, 1), SumInputs(LastRank, 2)>>
             /\ \A i \in 1 .. 2 : loc[w].values[i] = NumWorkers * obs[w].first.values[i]
      ELSE Output(w) = obs[w].first

C15_Witness ==
  /\ cfg.op = "GlobalMax" /\ IsRowSplit
  /\ cfg.input[0][1] # cfg.input[LastRank][1]
  /\ \A w \in Ranks : SecondReturn(w) /\ obs[w].ret = obs[w].first.ret
                        /\ obs[w].ret = <<MaxInputs(LastRank)>>

\* The worker has handed its payload to the plugin and zero-filled its buffer.
PastFill(w) == obs[w].syncs # <<>> /\ pc[w] # "bg_fill"
\* Past the zero fill, with no collective call of the final ApplyWithLabels issued.
BeforeReapplyCollective(w) == PastFill(w) /\ Len(calls[w]) = 2
\* A Broadcast of the result buffer has returned on the worker.
ResultDelivered(w) ==
  \E k \in 1 .. Len(calls[w]) :
    calls[w][k].buf = "result" /\ (k < Len(calls[w]) \/ pc[w] # "wait")

\* The steps of the federated-encrypted branch happen in the order encrypt (leader),
\* length broadcast, payload broadcast, SyncEncryptedGradient, zero fill, re-apply.
EncryptedStepsInOrder(w) ==
  /\ (w = 0 /\ calls[w] # <<>>) => obs[w].encrypts = 1
  /\ Len(calls[w]) >= 1 => calls[w][1].buf = "n_bytes"
  /\ Len(calls[w]) >= 2 => calls[w][2].buf = "encrypted"
  /\ obs[w].syncs # <<>> => Len(calls[w]) >= 2
  /\ pc[w] = "bg_fill" => obs[w].syncs # <<>> /\ Len(calls[w]) = 2
  /\ Len(calls[w]) >= 3 => PastFill(w)
  /\ Len(obs[w].fnLog) = 2 => PastFill(w)

\* C16: in the federated-encrypted branch every worker's gradient buffer is all
\* (0,0) pairs after its SyncEncryptedGradient call and zero fill and before the
\* first collective call of the final ApplyWithLabels.
C16_AllZeroBeforeReapply ==
  EncryptedBranch =>
    \A w \in Ranks :
      /\ EncryptedStepsInOrder(w)
      /\ BeforeReapplyCollective(w) => AllZero(loc[w].result)

\* C16 as amended: the steps occur in the stated order; every follower's gradient
\* buffer is all (0,0) pairs from its zero fill until a Broadcast of the result is
\* delivered to it, and the leader's from its zero fill until it re-evaluates
\* grad_fn, which it does before the first collective call of the final
\* ApplyWithLabels.
C16_FollowersZeroBeforeReapply ==
  EncryptedBranch =>
    /\ \A w \in Ranks : EncryptedStepsInOrder(w)
    /\ \A w \in Followers : (PastFill(w) /\ ~ResultDelivered(w)) => AllZero(loc[w].result)
    /\ (PastFill(0) /\ Len(obs[0].fnLog) = 1) => AllZero(loc[0].result)

C16_Witness ==
  /\ EncryptedBranch /\ cfg.initLen > 0 /\ cfg.outLen > 0
  /\ \A w \in Ranks : BeforeReapplyCollective(w) /\ pc[w] = "try_bcast_size"
  /\ \A w \in Followers : AllZero(loc[w].result)
  /\ loc[0].result = Computed(0)

\* The buffers whose contents are broadcast after a broadcast of their length.
PayloadBufs == {"msg", "result", "encrypted"}
LengthBufOf(b) ==
  CASE b = "msg" -> "msg_size"
    [] b = "result" -> "size"
    [] OTHER -> "n_bytes"

\* C17: at every payload Broadcast of this file (error message, container contents
\* of the resizable overload, encrypted payload) the worker's target buffer has
\* exactly the length the leader announced in the length Broadcast just before it,
\* and so the same length as the leader's buffer.
C17_PayloadSizedAsAnnounced ==
  cfg.op # "ApplyWithLabelsRaw" =>
    \A w \in Ranks :
      \A k \in 1 .. Len(calls[w]) :
        calls[w][k].buf \in PayloadBufs =>
          /\ k >= 2
          /\ calls[w][k - 1].buf = LengthBufOf(calls[w][k].buf)
          /\ Len(calls[0]) >= k - 1
          /\ calls[0][k - 1].buf = calls[w][k - 1].buf
          /\ calls[w][k].len = calls[0][k - 1].data[1]
          /\ Len(calls[0]) >= k => calls[0][k].len = calls[w][k].len

C17_Witness ==
  /\ cfg.op = "ApplyWithLabelsHdv" /\ IsVerticalFederated
  /\ cfg.initLen # cfg.outLen
  /\ \A w \in Ranks : pc[w] = "wait" /\ Len(calls[w]) = 3
                        /\ calls[w][3].buf = "result" /\ calls[w][3].len = cfg.outLen

\* Where a worker's chain stands once one of its steps has yielded Failure.
FailureKept(w) ==
  /\ (rc[w] = Failure /\ pc[w] = "returned") =>
       cfg.op = "TryApplyWithLabels" /\ obs[w].tryRet = Failure
  /\ (cfg.op = "TryApplyWithLabels" /\ pc[w] = "returned") => obs[w].tryRet = rc[w]
  /\ obs[w].fatal = "fn" => rc[w] = Success
  /\ (rc[w] = Failure /\ pc[w] = "fatal") => obs[w].fatal = "coll"

\* A step taken by a worker whose chain already holds Failure runs no later step of
\* the chain: no further collective call, no resize, and the Failure stays.
NoStepAfterFailure(w) ==
  rc[w] = Failure =>
    /\ calls'[w] = calls[w]
    /\ loc'[w].msg = loc[w].msg
    /\ loc'[w].result = loc[w].result
    /\ loc'[w].encrypted = loc[w].encrypted
    /\ rc'[w] = Failure
    /\ pc'[w] # "wait"

\* C18: in TryApplyWithLabels, ApplyWithLabels and BroadcastGradient, once a step of
\* the Result chain yields Failure on a worker, that worker invokes no later step,
\* the chain's value is that Failure, and it is never dropped: TryApplyWithLabels
\* returns it, ApplyWithLabels and BroadcastGradient end in the fatal error.
C18_ChainStopsAtFirstFailure ==
  /\ [](cfg.op \in LabelOps => \A w \in Ranks : FailureKept(w))
  /\ [][cfg.op \in LabelOps => \A w \in Ranks : NoStepAfterFailure(w)]_vars

C18_Witness ==
  /\ cfg.op = "ApplyWithLabelsHdv" /\ IsVerticalFederated
  /\ \E w \in Ranks :
       /\ rc[w] = Failure /\ pc[w] = "fatal" /\ obs[w].fatal = "coll"
       /\ Len(calls[w]) = 1 /\ calls[w][1].buf = "msg_size"
       /\ loc[w].result = Prior(w)

\* The positions inside the federated-encrypted branch, the zero fill included.
EncryptedSteps ==
  {"bg_grad", "bg_encrypt", "bg_nbytes", "bg_payload", "bg_safecoll", "bg_sync", "bg_fill"}

\* How often one BroadcastGradient call evaluates grad_fn on the worker.
ExpectedEvaluations(w) ==
  IF ~IsVerticalFederated THEN 1
  ELSE IF w # 0 THEN 0
  ELSE IF IsEncrypted THEN 2 ELSE 1

AllOk(w) == \A i \in 1 .. Len(obs[w].fnLog) : obs[w].fnLog[i].ok

\* C19: a BroadcastGradient call without failures evaluates grad_fn once on every
\* worker outside vertical-federated mode, once on the leader and never on followers
\* in the federated-unencrypted branch, twice on the leader and never on followers
\* in the federated-encrypted branch; outside the encrypted branch EncryptGradient
\* and SyncEncryptedGradient are never called and the buffer is never zero-filled.
C19_EvaluationCounts ==
  (cfg.op = "BroadcastGradient" /\ (IsVerticalFederated /\ IsEncrypted => cfg.federatedBuild)) =>
    \A w \in Ranks :
      /\ Len(obs[w].fnLog) <= ExpectedEvaluations(w)
      /\ (pc[w] = "returned" /\ AllOk(w)) => Len(obs[w].fnLog) = ExpectedEvaluations(w)
      /\ ~(IsVerticalFederated /\ IsEncrypted) =>
           /\ obs[w].encrypts = 0
           /\ obs[w].syncs = <<>>
           /\ pc[w] \notin EncryptedSteps

C19_Witness ==
  /\ EncryptedBranch /\ cfg.reliable
  /\ \A w \in Ranks : pc[w] = "returned" /\ AllOk(w)
  /\ Len(obs[0].fnLog) = 2
  /\ \A w \in Followers : Len(obs[w].fnLog) = 0 /\ Len(obs[w].syncs) = 1

\* C20: in vertical-federated mode, once the leader's fn has raised inside either
\* ApplyWithLabels overload, no worker issues the size or result Broadcast and
\* every follower's buffer keeps the length and contents it had before the call.
C20_FailedResultNotReplicated ==
  (IsVerticalFederated /\ cfg.op \in {"ApplyWithLabelsRaw", "ApplyWithLabelsHdv"}
     /\ LeaderRaised) =>
    /\ \A w \in Ranks :
         \A k \in 1 .. Len(calls[w]) : calls[w][k].buf \notin {"size", "result"}
    /\ \A w \in Followers : loc[w].result = Prior(w)

=============================================================================
